---- MODULE Spec2Model ----
(***************************************************************************)
(* Model of the wave registry and wave-configuration resolver of           *)
(* wave_visualizer (data_prep/wave_parser.py, validators.py), of its row   *)
(* filter (data_prep/cleaning/row_reduction.py) and of the transition      *)
(* aggregation behind its visualizations (visualization_techs/).           *)
(*                                                                         *)
(* Strings that the code inspects character by character (configuration   *)
(* tokens, wave names, column prefixes) are sequences of one-character     *)
(* strings.  A Python dict is a sequence of [key, val] entries in          *)
(* insertion order with unique keys.                                       *)
(***************************************************************************)
EXTENDS Integers, Sequences, FiniteSets, TLC

VARIABLES
    wave_file,    \* settings/visualization_settings/wave_definitions.csv
    wave_parser,  \* module global wave_parser (wave_parser.py:222)
    last,         \* the most recent API call and what it returned / raised
    lastAdd,      \* the most recent add_wave_definition call
    nAdds,        \* number of add_wave_definition calls made so far
    thr,          \* per-thread position inside add_wave_definition
    data,         \* the caller's dataset (a pandas DataFrame)
    builder_data, \* AlluvialVisualizationBuilder._data
    outcome       \* the most recent dataset operation and what it gave

\* The variables of the dataset operations (filter, aggregation, build).
dvars == <<data, builder_data, outcome>>

vars == <<wave_file, wave_parser, last, lastAdd, nAdds, thr, data, builder_data, outcome>>

\* ------------------------------------------------------------------ bounds

\* add_wave_definition is called at most MaxAdds times in a behaviour.
MaxAdds == 2

\* Largest wave number formatted into a w<N>_to_w<M> token.
MaxWave == 5

\* ----------------------------------------------------------- characters

Digits == <<"0", "1", "2", "3", "4", "5", "6", "7", "8", "9">>

UpperChars == <<"A","B","C","D","E","F","G","H","I","J","K","L","M",
                "N","O","P","Q","R","S","T","U","V","W","X","Y","Z">>

LowerChars == <<"a","b","c","d","e","f","g","h","i","j","k","l","m",
                "n","o","p","q","r","s","t","u","v","w","x","y","z">>

\* regex \d on the characters of the model's alphabet
IsDigit(c) == \E i \in 1..Len(Digits) : Digits[i] = c

DigitVal(c) == CHOOSE i \in 0..9 : Digits[i + 1] = c

\* str.isspace() on the ASCII characters, the ones str.strip() removes:
\* space, \t, \n, \r, \f (0x0c), and the control characters 0x0b, 0x1c,
\* 0x1d, 0x1e and 0x1f, written here as themselves.
IsSpace(c) == c \in {" ", "\t", "\n", "\r", "\f", "", "", "", "", ""}

\* str.lower() on one character
Lower(c) ==
    IF \E i \in 1..Len(UpperChars) : UpperChars[i] = c
    THEN LowerChars[CHOOSE i \in 1..Len(UpperChars) : UpperChars[i] = c]
    ELSE c

SetMin(S) == CHOOSE x \in S : \A y \in S : x <= y
SetMax(S) == CHOOSE x \in S : \A y \in S : x >= y

\* str.lower()
LowerStr(s) == [i \in 1..Len(s) |-> Lower(s[i])]

\* str.strip()
Strip(s) ==
    LET keep == {i \in 1..Len(s) : ~IsSpace(s[i])}
    IN  IF keep = {} THEN <<>> ELSE SubSeq(s, SetMin(keep), SetMax(keep))

\* int(<digits>)
RECURSIVE ParseInt(_)
ParseInt(ds) ==
    IF ds = <<>> THEN 0
    ELSE 10 * ParseInt(SubSeq(ds, 1, Len(ds) - 1)) + DigitVal(ds[Len(ds)])

\* str(<non-negative int>), as an f-string formats it
RECURSIVE Dec(_)
Dec(n) ==
    IF n < 10 THEN <<Digits[n + 1]>>
    ELSE Dec(n \div 10) \o <<Digits[(n % 10) + 1]>>

\* Index of the last character of the greedy digit run \d+ starting at i
\* (i - 1 when s[i] is no digit).
DigitRunEnd(s, i) ==
    LET js == {j \in i..Len(s) : \A k \in i..j : IsDigit(s[k])}
    IN  IF js = {} THEN i - 1 ELSE SetMax(js)

NoMatch == [matched |-> FALSE, g1 |-> <<>>, g2 |-> <<>>]

\* re.match(r'^w(\d+)_to_w(\d+)$', s, re.IGNORECASE); '$' also matches just
\* before a final newline.
WavePatternMatch(s) ==
    LET e1 == DigitRunEnd(s, 2)
        e2 == DigitRunEnd(s, e1 + 6)
    IN  IF /\ Len(s) >= 1
           /\ Lower(s[1]) = "w"
           /\ e1 >= 2
           /\ Len(s) >= e1 + 5
           /\ LowerStr(SubSeq(s, e1 + 1, e1 + 5)) = <<"_", "t", "o", "_", "w">>
           /\ e2 >= e1 + 6
           /\ \/ e2 = Len(s)
              \/ e2 = Len(s) - 1 /\ s[Len(s)] = "\n"
        THEN [matched |-> TRUE, g1 |-> SubSeq(s, 2, e1),
              g2 |-> SubSeq(s, e1 + 6, e2)]
        ELSE NoMatch

\* re.search(r'(\d+)', wave_name): the first run of digits, <<>> when none.
FirstDigitRun(name) ==
    LET starts == {i \in 1..Len(name) : IsDigit(name[i])}
    IN  IF starts = {} THEN <<>>
        ELSE SubSeq(name, SetMin(starts), DigitRunEnd(name, SetMin(starts)))

\* ------------------------------------------------------------------ dicts

DictHas(d, k) == \E i \in 1..Len(d) : d[i].key = k

DictGet(d, k) == d[CHOOSE i \in 1..Len(d) : d[i].key = k].val

\* d[k] = v : an existing key keeps its position, a new key goes last.
DictSet(d, k, v) ==
    IF DictHas(d, k)
    THEN [i \in 1..Len(d) |-> IF d[i].key = k THEN [key |-> k, val |-> v] ELSE d[i]]
    ELSE Append(d, [key |-> k, val |-> v])

\* list(d.keys())
DictKeys(d) == [i \in 1..Len(d) |-> d[i].key]

\* sorted(<list of int>)
Sorted(s) == SortSeq(s, LAMBDA a, b : a < b)

\* ------------------------------------------------------- names and tokens

WaveName(n) == <<"W", "a", "v", "e">> \o Dec(n)

Prefix(n) == <<"W">> \o Dec(n) \o <<"_">>

\* f"w{n}_to_w{m}"
WaveToken(n, m) == <<"w">> \o Dec(n) \o <<"_", "t", "o", "_", "w">> \o Dec(m)

AllWavesToken == <<"a", "l", "l", "_", "w", "a", "v", "e", "s">>

Row(name, prefix) == [wave_name |-> name, column_prefix |-> prefix]

\* ------------------------------------------------- the persisted CSV file

\* wave_definitions.csv: absent, a zero-byte file, or a header line followed
\* by rows (fields as written text; an empty field is read as NaN and NaN
\* is written as an empty field).
AbsentFile == [state |-> "absent", rows |-> <<>>]
EmptyFile == [state |-> "empty", rows |-> <<>>]
CsvFile(rows) == [state |-> "csv", rows |-> rows]

\* wave_file.exists()
FileExists(f) == f.state # "absent"

\* pd.read_csv raises EmptyDataError on a zero-byte file.
ReadCsvRaises(f) == f.state = "empty"

\* ------------------------------------------------------- WaveConfigParser

DefaultParser ==
    [isNone |-> FALSE,
     wave_definitions |-> << [key |-> WaveName(1), val |-> Prefix(1)],
                             [key |-> WaveName(2), val |-> Prefix(2)],
                             [key |-> WaveName(3), val |-> Prefix(3)] >>,
     wave_numbers |-> << [key |-> 1, val |-> <<WaveName(1), Prefix(1)>>],
                         [key |-> 2, val |-> <<WaveName(2), Prefix(2)>>],
                         [key |-> 3, val |-> <<WaveName(3), Prefix(3)>>] >>]

NoneParser == [isNone |-> TRUE, wave_definitions |-> <<>>, wave_numbers |-> <<>>]

\* As LoadRow, with the first row of a wave number winning over later ones.
LoadRowKeepFirst(p, row) ==
    LET run == FirstDigitRun(row.wave_name)
        defs == DictSet(p.wave_definitions, row.wave_name, row.column_prefix)
    IN  [isNone |-> FALSE,
         wave_definitions |-> defs,
         wave_numbers |->
            IF run = <<>> \/ DictHas(p.wave_numbers, ParseInt(run))
            THEN p.wave_numbers
            ELSE DictSet(p.wave_numbers, ParseInt(run),
                         <<row.wave_name, row.column_prefix>>)]

\* One iteration of "for _, row in wave_df.iterrows()".
LoadRow(p, row) ==
    LET run == FirstDigitRun(row.wave_name)
        defs == DictSet(p.wave_definitions, row.wave_name, row.column_prefix)
    IN  [isNone |-> FALSE,
         wave_definitions |-> defs,
         wave_numbers |->
            IF run = <<>> THEN p.wave_numbers
            ELSE DictSet(p.wave_numbers, ParseInt(run),
                         <<row.wave_name, row.column_prefix>>)]

RECURSIVE LoadRows(_, _)
LoadRows(p, rows) ==
    IF rows = <<>> THEN p
    ELSE LoadRows(LoadRow(p, Head(rows)), Tail(rows))

\* As _load_wave_definitions, without the defaults of a missing file.
LoadWaveDefinitionsNoSeed(f) ==
    IF ~FileExists(f) \/ ReadCsvRaises(f)
    THEN [isNone |-> FALSE, wave_definitions |-> <<>>, wave_numbers |-> <<>>]
    ELSE LoadRows([isNone |-> FALSE, wave_definitions |-> <<>>,
                   wave_numbers |-> <<>>], f.rows)

\* WaveConfigParser.__init__ / _load_wave_definitions: the parser built from
\* the file as it is now.  A row without a wave_name holds NaN, on which
\* re.search raises TypeError: the loader then falls back to the defaults.
LoadWaveDefinitions(f) ==
    IF ~FileExists(f) THEN DefaultParser
    ELSE IF ReadCsvRaises(f) THEN DefaultParser
    ELSE IF \E i \in 1..Len(f.rows) : f.rows[i].wave_name = <<>> THEN DefaultParser
    ELSE LoadRows([isNone |-> FALSE, wave_definitions |-> <<>>,
                   wave_numbers |-> <<>>], f.rows)

\* As _get_wave_parser, building the registry anew on every access.
GetWaveParserReload(cached, f) == LoadWaveDefinitions(f)

\* _get_wave_parser(): the cached instance, built on first access.
GetWaveParser(cached, f) ==
    IF cached.isNone THEN LoadWaveDefinitions(f) ELSE cached

\* ---------------------------------------------------------------- results

Ok(src, tgt) ==
    [kind |-> "ok", exc |-> "", msg |-> "", source |-> src, target |-> tgt,
     config |-> <<>>, waves |-> <<>>, available |-> <<>>, formats |-> <<>>]

Raise(exc, msg, config, waves, available, formats) ==
    [kind |-> "raise", exc |-> exc, msg |-> msg, source |-> <<>>, target |-> <<>>,
     config |-> config, waves |-> waves, available |-> available,
     formats |-> formats]

\* The shapes named in the resolver's "Invalid wave configuration" message.
ParserFormats == <<"w<number>_to_w<number>", "all_waves">>

\* The supported_formats list the validator passes to WaveConfigurationError.
ValidatorFormats == <<"w1_to_w2", "w2_to_w3", "w1_to_w3", "all_waves", "w{N}_to_w{M}">>

\* ', '.join(supported_formats) when supported_formats is the str
\* "Source and target waves must be different": its characters.
DifferentChars ==
    <<"S", "o", "u", "r", "c", "e", " ", "a", "n", "d", " ", "t", "a",
    "r", "g", "e", "t", " ", "w", "a", "v", "e", "s", " ", "m", "u", "s",
    "t", " ", "b", "e", " ", "d", "i", "f", "f", "e", "r", "e", "n", "t">>

\* parse_wave_config, line 116: the special case is recognised on the
\* lower-cased token as given (it is not stripped).
IsAllWaves(wave_config) == LowerStr(wave_config) = AllWavesToken

\* parse_wave_config, lines 117-127: first and last of the sorted wave
\* numbers, or the literal pair 'W1_', 'W3_' when fewer than two exist.
ResolveAllWaves(p) ==
    LET available_waves == Sorted(DictKeys(p.wave_numbers))
    IN  IF Len(available_waves) >= 2
        THEN Ok(DictGet(p.wave_numbers, available_waves[1])[2],
                DictGet(p.wave_numbers, available_waves[Len(available_waves)])[2])
        ELSE Ok(Prefix(1), Prefix(3))

\* parse_wave_config, lines 136-155: the checks on the two wave numbers, in
\* the order the code makes them.
ResolveNumbers(p, wave_config, source_num, target_num) ==
    IF source_num < 1 \/ target_num < 1
    THEN Raise("ValueError", "must be positive", wave_config, <<>>, <<>>, <<>>)
    ELSE IF source_num = target_num
    THEN Raise("ValueError", "must be different", wave_config, <<>>, <<>>, <<>>)
    ELSE IF ~DictHas(p.wave_numbers, source_num)
    THEN Raise("ValueError", "not found", <<>>, <<source_num>>,
               DictKeys(p.wave_numbers), <<>>)
    ELSE IF ~DictHas(p.wave_numbers, target_num)
    THEN Raise("ValueError", "not found", <<>>, <<target_num>>,
               DictKeys(p.wave_numbers), <<>>)
    ELSE Ok(DictGet(p.wave_numbers, source_num)[2],
            DictGet(p.wave_numbers, target_num)[2])

\* parse_wave_config, lines 157-165
InvalidFormat(p, wave_config) ==
    Raise("ValueError", "invalid", wave_config, <<>>, DictKeys(p.wave_numbers),
          ParserFormats)

\* WaveConfigParser.parse_wave_config
ParseWaveConfig(p, wave_config) ==
    IF IsAllWaves(wave_config) THEN ResolveAllWaves(p)
    ELSE LET match == WavePatternMatch(Strip(wave_config))
         IN  IF match.matched
             THEN ResolveNumbers(p, wave_config, ParseInt(match.g1),
                                 ParseInt(match.g2))
             ELSE InvalidFormat(p, wave_config)

\* WaveConfigValidator.validate_wave_config_format
ValidateWaveConfigFormat(wave_config) ==
    LET cfg == LowerStr(Strip(wave_config))
        match == WavePatternMatch(cfg)
    IN  IF ~match.matched
        THEN IF cfg = AllWavesToken
             THEN Ok(<<"a", "l", "l">>, <<"a", "l", "l">>)
             ELSE Raise("WaveConfigurationError", "invalid", cfg, <<>>, <<>>,
                        ValidatorFormats)
        ELSE IF match.g1 = match.g2
             THEN Raise("WaveConfigurationError", "invalid", cfg, <<>>, <<>>,
                        DifferentChars)
             ELSE Ok(<<"w">> \o match.g1, <<"w">> \o match.g2)

\* --------------------------------------------------------------- inputs

\* wave_definitions.csv as the program may find it at start-up: absent, or
\* written / edited by hand (header only, the three shipped waves, rows out
\* of numeric order, a single wave, a wave numbered 0, which the loader
\* registers like any other: int('0') of the digits of 'Wave0').
InitFiles ==
    { AbsentFile,
      CsvFile(<<>>),
      CsvFile(<<Row(WaveName(1), Prefix(1)), Row(WaveName(2), Prefix(2)),
                Row(WaveName(3), Prefix(3))>>),
      CsvFile(<<Row(WaveName(10), Prefix(10)), Row(WaveName(2), Prefix(2))>>),
      CsvFile(<<Row(WaveName(3), Prefix(3))>>),
      CsvFile(<<Row(WaveName(0), Prefix(0)), Row(WaveName(1), Prefix(1))>>) }

\* (wave_name, column_prefix) arguments of add_wave_definition.  Names follow
\* the format the loader assumes ('Wave1', 'Wave2', wave_parser.py:75): new
\* waves, a registered number with a new prefix, a second name with the
\* number 4, a name without digits (the loader's "if wave_num_match"), and
\* a wave numbered 0.
AddInputs ==
    { Row(WaveName(4), Prefix(4)),
      Row(WaveName(1), <<"X", "1", "_">>),
      Row(<<"W", "a", "v", "e", "0", "4">>, <<"Y", "4", "_">>),
      Row(<<"B", "a", "s", "e">>, <<"B", "_">>),
      Row(WaveName(5), Prefix(5)),
      Row(WaveName(0), Prefix(0)) }

\* Tokens outside the canonical f"w{N}_to_w{M}" spelling: upper case,
\* surrounding whitespace (blank, tab, newline, carriage return, form feed,
\* vertical tab), leading zeros, malformed shapes.
ExtraTokens ==
    {<<" ", "W", "1", "_", "T", "O", "_", "W", "2", " ">>,
     <<"W", "2", "_", "t", "o", "_", "W", "1">>,
     <<"\t", "w", "1", "_", "t", "o", "_", "w", "3", "\n">>,
     <<"w", "1", "_", "t", "o", "_", "w", "2", "\r">>,
     <<"\f", "w", "2", "_", "t", "o", "_", "w", "3", "">>,
     <<" ", "a", "l", "l", "_", "w", "a", "v", "e", "s", " ">>,
     <<"A", "L", "L", "_", "W", "A", "V", "E", "S">>,
     <<" ", "A", "l", "l", "_", "W", "a", "v", "e", "s", " ">>,
     <<"w", "0", "1", "_", "t", "o", "_", "w", "1">>,
     <<"w", "0", "1", "_", "t", "o", "_", "w", "2">>,
     <<"i", "n", "v", "a", "l", "i", "d">>,
     <<>>,
     <<"w", "a", "v", "e", "1", "_", "t", "o", "_", "w", "a", "v", "e", "3">>,
     <<"w", "1", "_", "t", "o", "_", "w", "2", "x">>,
     <<"a", "l", "l", " ", "w", "a", "v", "e", "s">>}

Tokens ==
    {WaveToken(n, m) : n \in 0..MaxWave, m \in 0..MaxWave}
    \cup {WaveToken(2, 10), WaveToken(10, 2), AllWavesToken}
    \cup ExtraTokens

\* The tokens resolved while the registry is being extended.
RegistryTokens ==
    {AllWavesToken, WaveToken(1, 4), WaveToken(4, 1), WaveToken(3, 4),
     WaveToken(2, 4), WaveToken(10, 4), WaveToken(1, 2), WaveToken(3, 1)}

\* Where to_csv fails, if it does: not at all, before the file is opened
\* (missing directory, no permission: the file is untouched), or after it
\* was opened for writing (truncated; "kept" rows reached the disk, -1 for a
\* zero-byte file).
NoFault == [at |-> "none", kept |-> 0]

Faults(nrows) ==
    {NoFault, [at |-> "open", kept |-> 0]}
    \cup {[at |-> "write", kept |-> k] : k \in (-1)..(nrows - 1)}

\* ------------------------------------------------------------ operations

\* add_wave_definition, the whole call: what it leaves in the file and in
\* the global wave_parser, and the flag it returns.
AddWaveDefinition(f, cached, wave_name, column_prefix, fault) ==
    LET wave_df == IF FileExists(f) THEN f.rows ELSE <<>>
        new_df == Append(wave_df, Row(wave_name, column_prefix))
        failed(file) == [file |-> file, parser |-> cached, ret |-> FALSE]
    IN  IF FileExists(f) /\ ReadCsvRaises(f) THEN failed(f)
        ELSE IF fault.at = "open" THEN failed(f)
        ELSE IF fault.at = "write"
        THEN failed(IF fault.kept < 0 THEN EmptyFile
                    ELSE CsvFile(SubSeq(new_df, 1, fault.kept)))
        ELSE [file |-> CsvFile(new_df), parser |-> NoneParser, ret |-> TRUE]

\* ---------------------------------------------------------------- datasets

\* A pandas DataFrame: its column labels in order and its rows in index
\* order, each row a tuple of cells aligned with the columns.  A cell is a
\* category label (a one-letter string) or the missing value NaN.
DataFrame(columns, rows) == [columns |-> columns, rows |-> rows]

NaN == "NaN"

\* The empty frame, and a builder whose _data is still None.
NoData == DataFrame(<<>>, <<>>)

NoneData == [none |-> TRUE]

\* What a dataset operation was called with and what it returned or raised
\* (cause: the exception that build() wrapped): the transition records and
\* statistics of an aggregation, or the frame a filter returned.
NoStats ==
    [total_transitions |-> 0, unique_patterns |-> 0,
     stability_rate |-> [num |-> 0, den |-> 1], top_patterns |-> <<>>]

Outcome(op, args, kind, exc, cause, records, stats, frame) ==
    [op |-> op, args |-> args, kind |-> kind, exc |-> exc, cause |-> cause,
     records |-> records, stats |-> stats, frame |-> frame]

NoOut == Outcome("none", <<>>, "none", "", "", <<>>, NoStats, NoData)

NoResult ==
    [kind |-> "none", exc |-> "", msg |-> "", source |-> <<>>, target |-> <<>>,
     config |-> <<>>, waves |-> <<>>, available |-> <<>>, formats |-> <<>>]

Call(op, token, res, list) == [op |-> op, token |-> token, res |-> res, list |-> list]

\* settings_reset: whether reset_all_settings has removed the persisted
\* definitions, "never", "before" the most recent add_wave_definition call
\* or "since" it.
NoAdd ==
    [called |-> FALSE, wave_name |-> <<>>, column_prefix |-> <<>>, ret |-> FALSE,
     fileBefore |-> AbsentFile, regBefore |-> <<>>, settings_reset |-> "never"]

Idle ==
    [pc |-> "idle", wave_name |-> <<>>, column_prefix |-> <<>>, wave_df |-> <<>>,
     parser |-> NoneParser]

\* The threads that call add_wave_definition, and the one that calls
\* get_available_waves.
Threads == {1, 2}

Reader == 0

\* The wave_numbers dict the next access through _get_wave_parser() reads.
EffectiveRegistry == GetWaveParser(wave_parser, wave_file).wave_numbers

Init ==
    /\ wave_file \in InitFiles
    /\ wave_parser = NoneParser
    /\ last = Call("none", <<>>, NoResult, <<>>)
    /\ lastAdd = NoAdd
    /\ nAdds = 0
    /\ thr = [t \in Threads \cup {Reader} |-> Idle]
    /\ data = NoData
    /\ builder_data = NoneData
    /\ outcome = NoOut

\* wave_visualizer.add_wave_definition(wave_name, column_prefix)
AddWave ==
    /\ nAdds < MaxAdds
    /\ \E in \in AddInputs :
       \E fault \in Faults(Len(wave_file.rows) + 1) :
          LET out == AddWaveDefinition(wave_file, wave_parser, in.wave_name,
                                       in.column_prefix, fault)
          IN  /\ wave_file' = out.file
              /\ wave_parser' = out.parser
              /\ last' = Call("add", <<>>, NoResult, <<>>)
              /\ lastAdd' = [called |-> TRUE, wave_name |-> in.wave_name,
                             column_prefix |-> in.column_prefix, ret |-> out.ret,
                             fileBefore |-> wave_file,
                             regBefore |-> EffectiveRegistry,
                             settings_reset |->
                                IF lastAdd.settings_reset = "never"
                                THEN "never" ELSE "before"]
    /\ nAdds' = nAdds + 1
    /\ UNCHANGED thr
    /\ UNCHANGED dvars

\* wave_parser.parse_wave_config(token): the module-level convenience
\* function, which builds the global parser on first access.
ResolveIn(T) ==
    /\ \E token \in T :
          LET parser == GetWaveParser(wave_parser, wave_file)
          IN  /\ wave_parser' = parser
              /\ last' = Call("parse", token, ParseWaveConfig(parser, token), <<>>)
    /\ UNCHANGED <<wave_file, lastAdd, nAdds, thr>>
    /\ UNCHANGED dvars

Resolve == ResolveIn(RegistryTokens)

ResolveAny == ResolveIn(Tokens)

\* WaveConfigValidator.validate_wave_config_format(token)
Validate ==
    /\ \E token \in Tokens :
          last' = Call("validate", token, ValidateWaveConfigFormat(token), <<>>)
    /\ UNCHANGED <<wave_file, wave_parser, lastAdd, nAdds, thr>>
    /\ UNCHANGED dvars

\* wave_parser.get_available_waves()
GetAvailableWaves ==
    /\ LET parser == GetWaveParser(wave_parser, wave_file)
       IN  /\ wave_parser' = parser
           /\ last' = Call("waves", <<>>, NoResult, DictKeys(parser.wave_numbers))
    /\ UNCHANGED <<wave_file, lastAdd, nAdds, thr>>
    /\ UNCHANGED dvars

\* wave_visualizer.settings.reset_all_settings(): shutil.rmtree and mkdir of
\* the three settings folders, settings/visualization_settings with
\* wave_definitions.csv last; the global wave_parser is left as it is.  It
\* returns True with the file gone, or False where rmtree or mkdir raised,
\* before the file was removed or after.
ResetAllSettings ==
    /\ \E ok \in BOOLEAN, removed \in BOOLEAN :
          /\ ok => removed
          /\ wave_file' = IF removed THEN AbsentFile ELSE wave_file
          /\ last' = Call("reset", <<>>,
                          [NoResult EXCEPT !.kind = IF ok THEN "ok" ELSE "failed"],
                          <<>>)
    /\ lastAdd' = IF wave_file' # wave_file
                  THEN [lastAdd EXCEPT !.settings_reset = "since"]
                  ELSE lastAdd
    /\ UNCHANGED <<wave_parser, nAdds, thr>>
    /\ UNCHANGED dvars

\* The registry over its life in one process: extended, resolved against,
\* listed, its settings folder cleared.
Next ==
    \/ AddWave
    \/ Resolve
    \/ GetAvailableWaves
    \/ ResetAllSettings

Spec == Init /\ [][Next]_vars

\* The resolver and the format validator applied to every token, against
\* each registry the program can start with.
NextTokens ==
    \/ ResolveAny
    \/ Validate
    \/ GetAvailableWaves

SpecTokens == Init /\ [][NextTokens]_vars

\* ------------------------------------------- add_wave_definition by steps

\* Two callers of add_wave_definition at once (threads of one process): the
\* call is four steps with nothing held between them, so the steps of one
\* call interleave with the other's and with those of a reader's
\* get_available_waves.

\* The text to_csv(index=False) writes: the header line, then one line per
\* row with the fields wave_name, column_prefix and description (empty, or
\* NaN) joined by commas.
HeaderLine ==
    <<"w", "a", "v", "e", "_", "n", "a", "m", "e", ",", "c", "o", "l",
      "u", "m", "n", "_", "p", "r", "e", "f", "i", "x", ",", "d", "e",
      "s", "c", "r", "i", "p", "t", "i", "o", "n">>

RECURSIVE CsvLines(_)
CsvLines(rows) ==
    IF rows = <<>> THEN <<>>
    ELSE Head(rows).wave_name \o <<",">> \o Head(rows).column_prefix
         \o <<",", "\n">> \o CsvLines(Tail(rows))

ToCsv(rows) == HeaderLine \o <<"\n">> \o CsvLines(rows)

\* A handle opened with mode 'w' writes its buffered text at offset 0 when
\* it is closed and does not truncate again: what the file held beyond the
\* length of the text stays.
WriteAtStart(old, text) == text \o SubSeq(old, Len(text) + 1, Len(old))

\* str.split(sep): the pieces between the occurrences of sep, found from
\* the left.
RECURSIVE Split(_, _)
Split(x, sep) ==
    LET at == {i \in 1..(Len(x) - Len(sep) + 1) :
                  SubSeq(x, i, i + Len(sep) - 1) = sep}
    IN  IF at = {} THEN <<x>>
        ELSE <<SubSeq(x, 1, SetMin(at) - 1)>>
             \o Split(SubSeq(x, SetMin(at) + Len(sep), Len(x)), sep)

\* pd.read_csv on a text whose first line is the header and whose lines
\* hold at most three fields: blank lines are skipped, a field a line does
\* not have is NaN.
ReadCsv(text) ==
    IF text = <<>> THEN EmptyFile
    ELSE LET lines == SelectSeq(Split(text, <<"\n">>), LAMBDA l : l # <<>>)
             field(l, k) == IF k <= Len(Split(l, <<",">>))
                            THEN Split(l, <<",">>)[k] ELSE <<>>
         IN  CsvFile([i \in 1..(Len(lines) - 1) |->
                         Row(field(lines[i + 1], 1), field(lines[i + 1], 2))])

\* Lines 285-297: wave_file.exists(), pd.read_csv, pd.concat of the new row.
AddRead(t) ==
    /\ thr[t].pc \in {"idle", "done", "failed"}
    /\ nAdds < MaxAdds
    /\ \E in \in AddInputs :
          IF FileExists(wave_file) /\ ReadCsvRaises(wave_file)
          THEN thr' = [thr EXCEPT ![t] =
                          [Idle EXCEPT !.pc = "failed", !.wave_name = in.wave_name,
                                       !.column_prefix = in.column_prefix]]
          ELSE thr' = [thr EXCEPT ![t] =
                          [Idle EXCEPT !.pc = "open", !.wave_name = in.wave_name,
                                       !.column_prefix = in.column_prefix,
                                       !.wave_df =
                                           Append(IF FileExists(wave_file)
                                                  THEN wave_file.rows ELSE <<>>,
                                                  Row(in.wave_name, in.column_prefix))]]
    /\ nAdds' = nAdds + 1
    /\ UNCHANGED <<wave_file, wave_parser, last, lastAdd>>
    /\ UNCHANGED dvars

\* Line 300, to_csv opening the file for writing: it is truncated.
AddOpen(t) ==
    /\ thr[t].pc = "open"
    /\ wave_file' = EmptyFile
    /\ thr' = [thr EXCEPT ![t].pc = "flush"]
    /\ UNCHANGED <<wave_parser, last, lastAdd, nAdds>>
    /\ UNCHANGED dvars

\* Line 300, to_csv closing the file: the text of the frame goes to the
\* start of the file, over what the file holds by then (nothing in a file
\* just truncated, else the text that the other thread's to_csv wrote since
\* this handle was opened).
AddFlush(t) ==
    /\ thr[t].pc = "flush"
    /\ wave_file' = ReadCsv(WriteAtStart(IF wave_file.state = "csv"
                                         THEN ToCsv(wave_file.rows) ELSE <<>>,
                                         ToCsv(thr[t].wave_df)))
    /\ thr' = [thr EXCEPT ![t].pc = "invalidate"]
    /\ UNCHANGED <<wave_parser, last, lastAdd, nAdds>>
    /\ UNCHANGED dvars

\* Lines 303-307: wave_parser = None; return True.
AddInvalidate(t) ==
    /\ thr[t].pc = "invalidate"
    /\ wave_parser' = NoneParser
    /\ thr' = [thr EXCEPT ![t].pc = "done"]
    /\ UNCHANGED <<wave_file, last, lastAdd, nAdds>>
    /\ UNCHANGED dvars

\* get_available_waves() by steps: _get_wave_parser tests the global, builds
\* a WaveConfigParser from the file, assigns it to the global and returns
\* what the global then holds, without a lock.

\* Line 227: if wave_parser is None
GetTest ==
    /\ thr[Reader].pc = "idle"
    /\ thr' = [thr EXCEPT ![Reader].pc =
                   IF wave_parser.isNone THEN "load" ELSE "return"]
    /\ UNCHANGED <<wave_file, wave_parser, last, lastAdd, nAdds>>
    /\ UNCHANGED dvars

\* Line 228, right-hand side: WaveConfigParser() reads the file.
GetLoad ==
    /\ thr[Reader].pc = "load"
    /\ thr' = [thr EXCEPT ![Reader].pc = "assign",
                          ![Reader].parser = LoadWaveDefinitions(wave_file)]
    /\ UNCHANGED <<wave_file, wave_parser, last, lastAdd, nAdds>>
    /\ UNCHANGED dvars

\* Line 228, the assignment to the global.
GetAssign ==
    /\ thr[Reader].pc = "assign"
    /\ wave_parser' = thr[Reader].parser
    /\ thr' = [thr EXCEPT ![Reader].pc = "return", ![Reader].parser = NoneParser]
    /\ UNCHANGED <<wave_file, last, lastAdd, nAdds>>
    /\ UNCHANGED dvars

\* Line 229 and get_available_waves line 267: the global is read again and
\* its wave numbers are listed; None has no attribute wave_numbers.
GetReturn ==
    /\ thr[Reader].pc = "return"
    /\ last' = IF wave_parser.isNone
               THEN Call("waves", <<>>,
                         Raise("AttributeError", "wave_numbers", <<>>, <<>>, <<>>, <<>>),
                         <<>>)
               ELSE Call("waves", <<>>, NoResult, DictKeys(wave_parser.wave_numbers))
    /\ thr' = [thr EXCEPT ![Reader].pc = "idle"]
    /\ UNCHANGED <<wave_file, wave_parser, lastAdd, nAdds>>
    /\ UNCHANGED dvars

NextConc ==
    \/ \E t \in Threads : AddRead(t)
    \/ \E t \in Threads : AddOpen(t)
    \/ \E t \in Threads : AddFlush(t)
    \/ \E t \in Threads : AddInvalidate(t)
    \/ GetTest
    \/ GetLoad
    \/ GetAssign
    \/ GetReturn

SpecConc == Init /\ [][NextConc]_vars

\* --------------------------------------------------- frames and columns

\* The category labels a cell can hold, in Python's string order: A to D,
\* then L10 to L56 (51 labels, one more than a categorical column may have).
Labels ==
    <<"A", "B", "C", "D">> \o [i \in 1..47 |-> "L" \o ToString(9 + i)]
    \o <<"X -> X", "X -> Y">>

LabelRank(v) == CHOOSE i \in 1..Len(Labels) : Labels[i] = v

\* The analysed variable and the filter column of the datasets below.
Variable == <<"V">>

FilterColumn == <<"G">>

\* generate_column_names: f"{prefix}{variable_name}" for both prefixes.
GenerateColumnNames(source_wave_prefix, target_wave_prefix, variable_name) ==
    <<source_wave_prefix \o variable_name, target_wave_prefix \o variable_name>>

\* column in df.columns
HasColumn(df, column) == \E i \in 1..Len(df.columns) : df.columns[i] = column

ColumnIndex(df, column) == CHOOSE i \in 1..Len(df.columns) : df.columns[i] = column

\* df[column]: the cells of one column in row order.
Column(df, column) ==
    LET c == ColumnIndex(df, column)
    IN  [r \in 1..Len(df.rows) |-> df.rows[r][c]]

NotNull(v) == v # NaN

\* df[column].nunique(): the number of distinct non-null cells.
NUnique(df, column) ==
    LET cells == Column(df, column)
    IN  Cardinality({cells[r] : r \in {q \in 1..Len(cells) : NotNull(cells[q])}})

\* ------------------------------------------------- transition aggregator

\* self._data[[source_column, target_column]].dropna(): the (source, target)
\* pairs of the rows in which neither cell is missing, in row order.
TransitionData(df, source_column, target_column) ==
    LET s == Column(df, source_column)
        t == Column(df, target_column)
    IN  SelectSeq([r \in 1..Len(df.rows) |-> <<s[r], t[r]>>],
                  LAMBDA p : NotNull(p[1]) /\ NotNull(p[2]))

\* The order of groupby keys: by source label, then by target label.
KeyLess(a, b) ==
    \/ LabelRank(a[1]) < LabelRank(b[1])
    \/ a[1] = b[1] /\ LabelRank(a[2]) < LabelRank(b[2])

RECURSIVE SortKeys(_)
SortKeys(S) ==
    IF S = {} THEN <<>>
    ELSE LET m == CHOOSE x \in S : \A y \in S \ {x} : KeyLess(x, y)
         IN  <<m>> \o SortKeys(S \ {m})

\* One record per distinct pair that counts the pair once, however many
\* rows hold it.
GroupByDistinct(pairs) ==
    LET keys == SortKeys({pairs[i] : i \in 1..Len(pairs)})
    IN  [g \in 1..Len(keys) |->
            [source |-> keys[g][1], target |-> keys[g][2], count |-> 1]]

\* .groupby([source_column, target_column]).size().reset_index(name='count')
\* with the columns renamed: one record per distinct pair, keys sorted.
GroupBySize(pairs) ==
    LET keys == SortKeys({pairs[i] : i \in 1..Len(pairs)})
    IN  [g \in 1..Len(keys) |->
            [source |-> keys[g][1], target |-> keys[g][2],
             count |-> Cardinality({i \in 1..Len(pairs) : pairs[i] = keys[g]})]]

\* transition_counts['count'].sum()
RECURSIVE SumCounts(_)
SumCounts(records) ==
    IF records = <<>> THEN 0
    ELSE Head(records).count + SumCounts(Tail(records))

\* (count / total) * 100, kept as the exact fraction 100 * count / total
\* (the code holds its float64 rounding).
Percent(count, total) == [num |-> 100 * count, den |-> total]

\* The denominator the dataset's row count would give.
PercentageOfRows(df, counts, r) == Percent(counts[r].count, Len(df.rows))

\* transition_counts['percentage'] = (count / total_transitions) * 100 with
\* total_transitions the sum of the counts.
Percentage(df, counts, r) == Percent(counts[r].count, SumCounts(counts))

\* sort_values('count', ascending=False) keeps no order among equal counts
\* (pandas' default kind is quicksort): every arrangement with the counts
\* non-increasing.
RECURSIVE SortValuesDesc(_)
SortValuesDesc(S) ==
    IF S = {} THEN {<<>>}
    ELSE LET top == {x \in S : \A y \in S : y.count <= x.count}
         IN  UNION {{<<x>> \o rest : rest \in SortValuesDesc(S \ {x})} : x \in top}

\* AlluvialVisualizationBuilder._process_transition_data: the transition
\* records it can return, or the KeyError of selecting an absent column.
ProcessTransitionData(df, source_wave_prefix, target_wave_prefix, variable_name) ==
    LET cols == GenerateColumnNames(source_wave_prefix, target_wave_prefix,
                                    variable_name)
    IN  IF ~HasColumn(df, cols[1]) \/ ~HasColumn(df, cols[2])
        THEN {[raised |-> TRUE, exc |-> "KeyError", records |-> <<>>]}
        ELSE LET counts == GroupBySize(TransitionData(df, cols[1], cols[2]))
                 full == {[source |-> counts[g].source,
                           target |-> counts[g].target,
                           count |-> counts[g].count,
                           percentage |-> Percentage(df, counts, g)] :
                          g \in 1..Len(counts)}
             IN  {[raised |-> FALSE, exc |-> "", records |-> sorted] :
                  sorted \in SortValuesDesc(full)}

\* transition_data.head(10)
TopN == 10

\* The first n records, one fewer than head(10) when there are that many.
HeadShort(records, n) ==
    SubSeq(records, 1, IF Len(records) < n THEN Len(records) ELSE n - 1)

\* DataFrame.head(n): the first min(n, len) records.
head(records, n) ==
    SubSeq(records, 1, IF Len(records) < n THEN Len(records) ELSE n)

\* transition_data[source == target]['count'].sum()
StableCount(records) ==
    SumCounts(SelectSeq(records, LAMBDA r : r.source = r.target))

\* AlluvialVisualizationBuilder._calculate_statistics (variable_analyzed and
\* wave_transition echo the builder's settings and are left out).
CalculateStatistics(transition_data) ==
    LET total_transitions == SumCounts(transition_data)
        stable_count == StableCount(transition_data)
        top == head(transition_data, TopN)
    IN  [total_transitions |-> total_transitions,
         unique_patterns |-> Len(transition_data),
         stability_rate |-> IF total_transitions > 0
                            THEN Percent(stable_count, total_transitions)
                            ELSE [num |-> 0, den |-> 1],
         top_patterns |-> [i \in 1..Len(top) |->
                              [source |-> top[i].source,
                               target |-> top[i].target,
                               count |-> top[i].count,
                               percentage |-> top[i].percentage,
                               stable |-> top[i].source = top[i].target]]]

\* ------------------------------------------------ aggregation, by itself

\* Rows of a two-column frame: at most MaxRows of them.
MaxRows == 3

\* The cells of the enumerated frames: two labels and the missing value.
Cells == {"A", "B", NaN}

RECURSIVE SeqsUpTo(_, _)
SeqsUpTo(S, n) ==
    IF n = 0 THEN {<<>>}
    ELSE LET shorter == SeqsUpTo(S, n - 1)
         IN  shorter \cup {Append(s, x) : s \in {q \in shorter : Len(q) = n - 1}, x \in S}

SourceColumn == GenerateColumnNames(Prefix(1), Prefix(2), Variable)[1]

TargetColumn == GenerateColumnNames(Prefix(1), Prefix(2), Variable)[2]

\* A frame with k rows (A, A), k = 1..4, k rows (A, B), ... : eleven
\* distinct pairs, the pair of rank k held by k rows.
WidePair(k) == <<Labels[((k - 1) \div 4) + 1], Labels[((k - 1) % 4) + 1]>>

WideRows ==
    [i \in 1..66 |-> WidePair(CHOOSE k \in 1..11 :
                                 (k * (k - 1)) \div 2 < i /\ i <= (k * (k + 1)) \div 2)]

WideFrame == DataFrame(<<SourceColumn, TargetColumn>>, WideRows)

\* Every frame of the two resolved columns with at most MaxRows rows, and
\* one frame with more than ten distinct transitions.
AggFrames ==
    {DataFrame(<<SourceColumn, TargetColumn>>, rows) :
        rows \in SeqsUpTo(Cells \X Cells, MaxRows)} \cup {WideFrame}

InitRegistry ==
    /\ wave_file = AbsentFile
    /\ wave_parser = NoneParser
    /\ last = Call("none", <<>>, NoResult, <<>>)
    /\ lastAdd = NoAdd
    /\ nAdds = 0
    /\ thr = [t \in Threads \cup {Reader} |-> Idle]

InitAgg ==
    /\ InitRegistry
    /\ data \in AggFrames
    /\ builder_data = data
    /\ outcome = NoOut

\* A builder holding the frame and the prefixes of w1_to_w2 runs
\* _process_transition_data and then _calculate_statistics on its result.
\* generate_column_names goes through _get_wave_parser(), which builds the
\* global parser on first access.
Aggregate ==
    /\ \E o \in ProcessTransitionData(builder_data, Prefix(1), Prefix(2), Variable) :
          outcome' = IF o.raised
                     THEN Outcome("aggregate", <<>>, "raise", o.exc, "", <<>>,
                                  NoStats, NoData)
                     ELSE Outcome("aggregate", <<>>, "ok", "", "", o.records,
                                  CalculateStatistics(o.records), NoData)
    /\ wave_parser' = GetWaveParser(wave_parser, wave_file)
    /\ UNCHANGED <<data, builder_data>>
    /\ UNCHANGED <<wave_file, last, lastAdd, nAdds, thr>>

NextAgg == Aggregate

SpecAgg == InitAgg /\ [][NextAgg]_vars

\* ------------------------------------------------------------ row filter

\* Series.isin(values) for one cell, on the first listed value only.
IsInFirst(v, values) == values # <<>> /\ values[1] = v

\* Series.isin(values) for one cell, were a missing cell never a member.
IsInNotNull(v, values) == NotNull(v) /\ \E i \in 1..Len(values) : values[i] = v

\* Series.isin(values) for one cell: a missing cell is a member when NaN
\* is listed.
IsIn(v, values) == \E i \in 1..Len(values) : values[i] = v

Filter(column, values) == [column |-> column, values |-> values]

\* The loop of apply_filters: a filter on an absent column is skipped, any
\* other keeps the rows whose cell is among its values.
RECURSIVE FilterEach(_, _)
FilterEach(df, filters) ==
    IF filters = <<>> THEN df
    ELSE LET f == Head(filters)
             kept == IF ~HasColumn(df, f.column) THEN df
                     ELSE LET c == ColumnIndex(df, f.column)
                          IN  DataFrame(df.columns,
                                        SelectSeq(df.rows,
                                                  LAMBDA row : IsIn(row[c], f.values)))
         IN  FilterEach(kept, Tail(filters))

Returned(frame) == [raised |-> FALSE, exc |-> "", frame |-> frame]

Raised(exc) == [raised |-> TRUE, exc |-> exc, frame |-> NoData]

\* RowReductionHandler.apply_filters(data, {"filters": filters})
ApplyFilters(df, filters) ==
    IF filters = <<>> THEN Returned(df)
    ELSE LET filtered_data == FilterEach(df, filters)
         IN  IF Len(df.rows) = 0 THEN Raised("ZeroDivisionError")
             ELSE IF Len(filtered_data.rows) = 0 THEN Raised("ValueError")
             ELSE Returned(filtered_data)

\* ------------------------------------------------------------ validators

\* validate_dataframe(data, min_rows=10, min_cols=2)
MinRows == 10

MinCols == 2

\* validate_categorical_column(data, column_name, max_unique=50)
MaxUnique == 50

MinUnique == 2

Passed == [raised |-> FALSE, exc |-> ""]

Fails(exc) == [raised |-> TRUE, exc |-> exc]

\* Two checks in sequence: the second runs when the first raised nothing.
Then(a, b) == IF a.raised THEN a ELSE b

\* DataValidator.validate_dataframe
ValidateDataframe(df, min_rows, min_cols) ==
    IF Len(df.rows) < min_rows THEN Fails("DataValidationError")
    ELSE IF Len(df.columns) < min_cols THEN Fails("DataValidationError")
    ELSE Passed

\* DataValidator.validate_column_exists
ValidateColumnExists(df, column_name) ==
    IF ~HasColumn(df, column_name) THEN Fails("ColumnNotFoundError") ELSE Passed

\* DataValidator.validate_categorical_column (called on an existing column)
ValidateCategoricalColumn(df, column_name, max_unique) ==
    LET unique_count == NUnique(df, column_name)
    IN  IF unique_count > max_unique THEN Fails("DataValidationError")
        ELSE IF unique_count < MinUnique THEN Fails("DataValidationError")
        ELSE Passed

\* FilterValidator.validate_filter_operation
ValidateFilterOperation(df, filter_column, filter_value) ==
    IF ~HasColumn(df, filter_column) THEN Fails("ColumnNotFoundError")
    ELSE LET cells == Column(df, filter_column)
             available_values == {cells[r] : r \in {q \in 1..Len(cells) : NotNull(cells[q])}}
             filtered_count == Cardinality({r \in 1..Len(cells) : cells[r] = filter_value})
         IN  IF filter_value \notin available_values THEN Fails("FilteringError")
             ELSE IF filtered_count = 0 THEN Fails("FilteringError")
             ELSE Passed

\* The try block of validate_visualization_inputs (lines 496-506): resolve
\* the token, then check both resolved columns.
ValidateResolvedColumns(df, variable_name, wave_config, parser) ==
    LET parsed == ParseWaveConfig(parser, wave_config)
    IN  IF parsed.kind = "raise" THEN Fails(parsed.exc)
        ELSE LET cols == GenerateColumnNames(parsed.source, parsed.target,
                                             variable_name)
             IN  Then(ValidateColumnExists(df, cols[1]),
                 Then(ValidateColumnExists(df, cols[2]),
                 Then(ValidateCategoricalColumn(df, cols[1], MaxUnique),
                      ValidateCategoricalColumn(df, cols[2], MaxUnique))))

\* The except branch (lines 508-511): whatever the try block raised is
\* dropped and the base variable name is checked instead.
ValidateBaseColumn(df, variable_name) ==
    Then(ValidateColumnExists(df, variable_name),
         ValidateCategoricalColumn(df, variable_name, MaxUnique))

\* if filter_column and filter_value
HasFilter(filter_column, filter_value) == filter_column # <<>> /\ filter_value # ""

\* validators.validate_visualization_inputs
ValidateVisualizationInputs(df, variable_name, wave_config, filter_column, filter_value, parser) ==
    LET format == ValidateWaveConfigFormat(wave_config)
        resolved == ValidateResolvedColumns(df, variable_name, wave_config, parser)
    IN  Then(ValidateDataframe(df, MinRows, MinCols),
        Then(IF format.kind = "raise" THEN Fails(format.exc) ELSE Passed,
        Then(IF resolved.raised THEN ValidateBaseColumn(df, variable_name)
             ELSE Passed,
             IF HasFilter(filter_column, filter_value)
             THEN ValidateFilterOperation(df, filter_column, filter_value)
             ELSE Passed)))

\* Whether validate_visualization_inputs gets as far as parse_wave_config,
\* which builds the global parser on first access.
ValidationParses(df, wave_config) ==
    /\ ~ValidateDataframe(df, MinRows, MinCols).raised
    /\ ValidateWaveConfigFormat(wave_config).kind # "raise"

\* ------------------------------------------------- the filter, by itself

\* The filter column's cells come with a second column that tells the
\* rows apart.
FilterFrames ==
    {DataFrame(<<FilterColumn, SourceColumn>>, rows) :
        rows \in SeqsUpTo(Cells \X {"A", "B"}, MaxRows)}

\* allowed_values: up to two of the labels A, B and NaN in either order,
\* and lists with the label C, which no row of the frames above holds.
ValueLists == SeqsUpTo({"A", "B", NaN}, 2) \cup {<<"C">>, <<"A", "C">>}

\* A column no frame has.
AbsentColumn == <<"H">>

\* settings["filters"]: none, one filter, or two filters on the column.
FilterLists ==
    {<<>>}
    \cup {<<Filter(FilterColumn, vs)>> : vs \in ValueLists}
    \cup {<<Filter(AbsentColumn, <<"A">>)>>}
    \cup {<<Filter(FilterColumn, <<"A", "B", NaN>>), Filter(c, <<v>>)>> :
             c \in {SourceColumn, AbsentColumn}, v \in {"A", "B"}}

InitFilter ==
    /\ InitRegistry
    /\ data \in FilterFrames
    /\ builder_data = NoneData
    /\ outcome = NoOut

\* RowReductionHandler().apply_filters(data, {"filters": filters}): the
\* caller's frame is copied, never assigned to.
ApplyFiltersCall ==
    /\ \E filters \in FilterLists :
          LET r == ApplyFilters(data, filters)
          IN  outcome' = Outcome("apply_filters", filters,
                                 IF r.raised THEN "raise" ELSE "ok", r.exc, "",
                                 <<>>, NoStats, r.frame)
    /\ UNCHANGED <<data, builder_data>>
    /\ UNCHANGED <<wave_file, wave_parser, last, lastAdd, nAdds, thr>>

NextFilter == ApplyFiltersCall

SpecFilter == InitFilter /\ [][NextFilter]_vars

\* ------------------------------------------------- the visualization paths

\* Where build() fails, self._data is what the builder held by then.
BuildFail(cause, held) ==
    [raised |-> TRUE, cause |-> cause, held |-> held, records |-> <<>>,
     stats |-> NoStats]

\* AlluvialVisualizationBuilder.build on a fresh builder after set_data,
\* set_variable, set_wave_config and apply_filter: _prepare_data (validate,
\* then filter), _configure_visualization (resolve, the resolver's
\* ValueError re-raised as VisualizationError, then the customizer, which
\* raises RuntimeError unless the cleaning pipeline's settings files
\* exist), _process_transition_data, _calculate_statistics.  Drawing the
\* figure is taken to succeed.  cause is the exception that reaches the
\* except clause of build(), which wraps it into VisualizationError.
BuildRun(df, variable_name, wave_config, filter_column, filter_value, parser, cleaned) ==
    LET valid == ValidateVisualizationInputs(df, variable_name, wave_config,
                                             filter_column, filter_value, parser)
        filtered == IF HasFilter(filter_column, filter_value)
                    THEN ApplyFilters(df, <<Filter(filter_column, <<filter_value>>)>>)
                    ELSE Returned(df)
        parsed == ParseWaveConfig(parser, wave_config)
    IN  IF valid.raised THEN {BuildFail(valid.exc, df)}
        ELSE IF filtered.raised THEN {BuildFail(filtered.exc, df)}
        ELSE IF parsed.kind = "raise"
        THEN {BuildFail(IF parsed.exc = "ValueError" THEN "VisualizationError"
                        ELSE parsed.exc, filtered.frame)}
        ELSE IF ~cleaned THEN {BuildFail("RuntimeError", filtered.frame)}
        ELSE {IF o.raised THEN BuildFail(o.exc, filtered.frame)
              ELSE [raised |-> FALSE, cause |-> "", held |-> filtered.frame,
                    records |-> o.records,
                    stats |-> CalculateStatistics(o.records)] :
              o \in ProcessTransitionData(filtered.frame, parsed.source,
                                          parsed.target, variable_name)}

\* create_heatmap_visualization and create_pattern_analysis_visualization,
\* lines 47-69 of both: filter if asked to, resolve the token, select the
\* two columns and drop the incomplete rows.
FilterAndSelect(df, variable_name, wave_config, filter_column, filter_value, parser) ==
    LET filtered == IF HasFilter(filter_column, filter_value)
                    THEN ApplyFilters(df, <<Filter(filter_column, <<filter_value>>)>>)
                    ELSE Returned(df)
        parsed == ParseWaveConfig(parser, wave_config)
        cols == GenerateColumnNames(parsed.source, parsed.target, variable_name)
    IN  IF filtered.raised
        THEN [raised |-> TRUE, exc |-> filtered.exc, frame |-> NoData, pairs |-> <<>>]
        ELSE IF parsed.kind = "raise"
        THEN [raised |-> TRUE, exc |-> parsed.exc, frame |-> filtered.frame,
              pairs |-> <<>>]
        ELSE IF ~HasColumn(filtered.frame, cols[1]) \/ ~HasColumn(filtered.frame, cols[2])
        THEN [raised |-> TRUE, exc |-> "KeyError", frame |-> filtered.frame,
              pairs |-> <<>>]
        ELSE [raised |-> FALSE, exc |-> "", frame |-> filtered.frame,
              pairs |-> TransitionData(filtered.frame, cols[1], cols[2])]

\* The statistics of the heat map that the model keeps: total_transitions
\* (the matrix and its diagonal are left out).
HeatmapStatistics(pairs) ==
    [NoStats EXCEPT !.total_transitions = Len(pairs)]

\* str(label): the characters of a category label.
LabelText(v) ==
    CASE v = "X -> X" -> <<"X", " ", "-", ">", " ", "X">>
      [] v = "X -> Y" -> <<"X", " ", "-", ">", " ", "Y">>
      [] LabelRank(v) <= 4 -> <<v>>
      [] OTHER -> <<"L">> \o Dec(LabelRank(v) + 5)

Arrow == <<" ", "-", ">", " ">>

\* f"{source_name} -> {target_name}"
FormatPattern(source_name, target_name) ==
    LabelText(source_name) \o Arrow \o LabelText(target_name)

\* 'Stable' if x.split(' -> ')[0] == x.split(' -> ')[1] else 'Changed'
PatternType(x) ==
    IF Split(x, Arrow)[1] = Split(x, Arrow)[2] THEN "Stable" ELSE "Changed"

\* pd.Series(patterns).value_counts() with the Percentage and Type columns:
\* one row per distinct pattern string, sorted by count, largest first
\* (value_counts sorts with sort_values, which keeps no order among equal
\* counts): every such pattern_df.
ValueCounts(patterns) ==
    SortValuesDesc(
        {[pattern |-> patterns[k],
          count |-> Cardinality({i \in 1..Len(patterns) : patterns[i] = patterns[k]}),
          percentage |-> Percent(Cardinality({i \in 1..Len(patterns) :
                                                patterns[i] = patterns[k]}),
                                 Len(patterns)),
          type |-> PatternType(patterns[k])] : k \in 1..Len(patterns)})

\* The statistics of the pattern analysis, one record for each pattern_df
\* that value_counts can give (wave_transition and variable_analyzed are
\* left out).  The percentages are 0/0 (NaN) when no row is complete.
PatternStatistics(pairs) ==
    LET patterns == [i \in 1..Len(pairs) |-> FormatPattern(pairs[i][1], pairs[i][2])]
        total_transitions == Len(pairs)
    IN  {LET top_patterns == head(pattern_df, 15)
             stable_count == SumCounts(SelectSeq(pattern_df, LAMBDA r : r.type = "Stable"))
             changed_count == SumCounts(SelectSeq(pattern_df, LAMBDA r : r.type = "Changed"))
         IN  [total_transitions |-> total_transitions,
              unique_patterns |-> Len(pattern_df),
              stable_count |-> stable_count,
              stable_percentage |-> Percent(stable_count, total_transitions),
              changed_count |-> changed_count,
              changed_percentage |-> Percent(changed_count, total_transitions),
              top_5_patterns |-> head(top_patterns, 5)] :
         pattern_df \in ValueCounts(patterns)}

\* Frames of at least ten rows.  Every second row holds A in the source
\* column; the target column holds A in rows 1-6, B in rows 7-9 and nothing
\* in row 10; the filter column holds A in rows 1-5 and B after.
GoodRow(i) ==
    <<IF i % 2 = 1 THEN "A" ELSE "B",
      IF i <= 6 THEN "A" ELSE IF i = MinRows THEN NaN ELSE "B",
      IF i <= 5 THEN "A" ELSE "B">>

GoodFrame ==
    DataFrame(<<SourceColumn, TargetColumn, FilterColumn>>,
              [i \in 1..MinRows |-> GoodRow(i)])

\* The target column is absent.
NoTargetFrame ==
    DataFrame(<<SourceColumn, FilterColumn>>,
              [i \in 1..MinRows |-> <<GoodRow(i)[1], GoodRow(i)[3]>>])

\* The target column is absent and a column named as the variable exists.
BaseForTargetFrame ==
    DataFrame(<<SourceColumn, Variable, FilterColumn>>,
              [i \in 1..MinRows |-> GoodRow(i)])

\* The target column holds one value only.
ConstantFrame ==
    DataFrame(<<SourceColumn, TargetColumn, FilterColumn>>,
              [i \in 1..MinRows |-> <<GoodRow(i)[1], "A", GoodRow(i)[3]>>])

\* The same, next to a column named as the variable.
ConstantBaseFrame ==
    DataFrame(<<SourceColumn, TargetColumn, Variable, FilterColumn>>,
              [i \in 1..MinRows |-> <<GoodRow(i)[1], "A", GoodRow(i)[2], GoodRow(i)[3]>>])

\* The source column holds MaxUnique + 1 labels; the target column holds a
\* value in the first two rows only.
ManyFrame ==
    DataFrame(<<SourceColumn, TargetColumn, FilterColumn>>,
              [i \in 1..(MaxUnique + 1) |->
                  <<Labels[i], IF i = 1 THEN "A" ELSE IF i = 2 THEN "B" ELSE NaN,
                    IF i <= 5 THEN "A" ELSE "B">>])

\* Fewer than ten rows.
SmallFrame ==
    DataFrame(<<SourceColumn, TargetColumn, FilterColumn>>,
              [i \in 1..3 |-> GoodRow(i)])

\* No row holds both a source and a target value.
DisjointFrame ==
    DataFrame(<<SourceColumn, TargetColumn, FilterColumn>>,
              [i \in 1..MinRows |->
                  <<IF i <= 5 THEN GoodRow(i)[1] ELSE NaN,
                    IF i <= 5 THEN NaN ELSE GoodRow(i)[1],
                    GoodRow(i)[3]>>])

\* Labels that hold an arrow: three rows keep "X -> Y", two rows go from
\* "X -> X" to "A", the others are those of GoodFrame.
ArrowFrame ==
    DataFrame(<<SourceColumn, TargetColumn, FilterColumn>>,
              [i \in 1..MinRows |->
                  IF i <= 3 THEN <<"X -> Y", "X -> Y", GoodRow(i)[3]>>
                  ELSE IF i <= 5 THEN <<"X -> X", "A", GoodRow(i)[3]>>
                  ELSE GoodRow(i)])

\* The columns of GoodFrame and no row.
EmptyFrame == DataFrame(<<SourceColumn, TargetColumn, FilterColumn>>, <<>>)

BuildFrames ==
    {GoodFrame, NoTargetFrame, BaseForTargetFrame, ConstantFrame,
     ConstantBaseFrame, ManyFrame, SmallFrame, DisjointFrame, ArrowFrame,
     EmptyFrame}

\* w1_to_w2, all_waves (W1_ and W3_ with the built-in registry), a token with
\* an unregistered wave, and a malformed token.
BuildTokens ==
    {WaveToken(1, 2), AllWavesToken, WaveToken(1, 4),
     <<"i", "n", "v", "a", "l", "i", "d">>}

\* filter_column / filter_value: none, a value some rows hold, a value no
\* row holds, a column that does not exist, and the empty string as the
\* value (falsy, like no value at all, in "if filter_column and
\* filter_value").
NoFilter == [column |-> <<>>, value |-> ""]

BuildFilters ==
    {NoFilter,
     [column |-> FilterColumn, value |-> "A"],
     [column |-> FilterColumn, value |-> "C"],
     [column |-> AbsentColumn, value |-> "A"],
     [column |-> FilterColumn, value |-> ""]}

Args(wave_config, f) ==
    [wave_config |-> wave_config, filter_column |-> f.column,
     filter_value |-> f.value]

InitBuild ==
    /\ InitRegistry
    /\ data \in BuildFrames
    /\ builder_data = NoneData
    /\ outcome = NoOut

\* validate_visualization_inputs(data, variable, wave_config, column, value)
ValidateInputs ==
    /\ \E wave_config \in BuildTokens, f \in BuildFilters :
          LET parser == GetWaveParser(wave_parser, wave_file)
              v == ValidateVisualizationInputs(data, Variable, wave_config,
                                               f.column, f.value, parser)
          IN  /\ outcome' = Outcome("validate", Args(wave_config, f),
                                    IF v.raised THEN "raise" ELSE "ok", v.exc, "",
                                    <<>>, NoStats, NoData)
              /\ wave_parser' = IF ValidationParses(data, wave_config)
                                THEN parser ELSE wave_parser
    /\ UNCHANGED <<data, builder_data>>
    /\ UNCHANGED <<wave_file, last, lastAdd, nAdds, thr>>

\* The exception leaves build() as it was raised.
LetEscape(cause) == cause

\* build(), lines 150-152: whatever a step raised is raised again as
\* VisualizationError.
WrapFailure(cause) == "VisualizationError"

\* AlluvialVisualizationBuilder().set_data(data).set_variable(variable)
\*     .set_wave_config(wave_config).apply_filter(column, value).build()
FreshBuilds ==
    {[op |-> "build", held |-> data, wave_config |-> wave_config, f |-> f,
      cleaned |-> cleaned] :
     wave_config \in BuildTokens, f \in BuildFilters, cleaned \in BOOLEAN}

\* AlluvialVisualizationBuilder().set_variable(variable).build(): the token
\* is the builder's default, w1_to_w2, there is no filter, and _prepare_data
\* loads processed_data.csv, which holds the dataset or is missing (the
\* builder then holds None still).
DefaultBuilds ==
    {[op |-> "build_default", held |-> held, wave_config |-> WaveToken(1, 2),
      f |-> NoFilter, cleaned |-> cleaned] :
     held \in {data, NoneData}, cleaned \in BOOLEAN}

\* builder.apply_filter(column, value).build() on the builder of an earlier
\* build(): it starts from the self._data that build left, and with the
\* customizer of that build if it got as far as making one.
Rebuilds ==
    IF outcome.op \in {"build", "build_default", "rebuild"} /\ builder_data # NoneData
    THEN {[op |-> "rebuild", held |-> builder_data,
           wave_config |-> outcome.args.wave_config, f |-> f, cleaned |-> cleaned] :
          f \in BuildFilters \ {NoFilter},
          cleaned \in IF outcome.kind = "ok" THEN {TRUE} ELSE BOOLEAN}
    ELSE {}

\* What build() gives on a builder that holds c.held and is configured with
\* c.wave_config and the filter c.f.
BuildOutcomes(c) ==
    IF c.held = NoneData
    THEN {BuildFail("DataLoadingError", NoneData)}
    ELSE BuildRun(c.held, Variable, c.wave_config, c.f.column, c.f.value,
                  GetWaveParser(wave_parser, wave_file), c.cleaned)

\* builder.build(), on a new builder or on one that has built before.
Build ==
    /\ \E c \in FreshBuilds \cup DefaultBuilds \cup Rebuilds :
          /\ \E r \in BuildOutcomes(c) :
                /\ builder_data' = r.held
                /\ outcome' = Outcome(c.op, Args(c.wave_config, c.f),
                                      IF r.raised THEN "raise" ELSE "ok",
                                      IF r.raised THEN WrapFailure(r.cause) ELSE "",
                                      r.cause, r.records, r.stats, NoData)
          /\ wave_parser' = IF c.held # NoneData /\ ValidationParses(c.held, c.wave_config)
                            THEN GetWaveParser(wave_parser, wave_file)
                            ELSE wave_parser
    /\ UNCHANGED data
    /\ UNCHANGED <<wave_file, last, lastAdd, nAdds, thr>>

\* create_heatmap_visualization(data, variable, wave_config, column, value,
\*                              show_plot=False)
Heatmap ==
    /\ \E wave_config \in BuildTokens, f \in BuildFilters :
          LET parser == GetWaveParser(wave_parser, wave_file)
              s == FilterAndSelect(data, Variable, wave_config, f.column, f.value,
                                   parser)
          IN  /\ outcome' = Outcome("heatmap", Args(wave_config, f),
                                    IF s.raised THEN "raise" ELSE "ok", s.exc, "",
                                    <<>>,
                                    IF s.raised THEN NoStats
                                    ELSE HeatmapStatistics(s.pairs),
                                    s.frame)
              /\ wave_parser' = IF s.raised /\ s.frame = NoData
                                THEN wave_parser ELSE parser
    /\ UNCHANGED <<data, builder_data>>
    /\ UNCHANGED <<wave_file, last, lastAdd, nAdds, thr>>

\* create_pattern_analysis_visualization(data, variable, wave_config, column,
\*                                       value, show_plot=False)
PatternAnalysis ==
    /\ \E wave_config \in BuildTokens, f \in BuildFilters :
          LET parser == GetWaveParser(wave_parser, wave_file)
              s == FilterAndSelect(data, Variable, wave_config, f.column, f.value,
                                   parser)
          IN  /\ \E statistics \in IF s.raised THEN {NoStats}
                                  ELSE PatternStatistics(s.pairs) :
                    outcome' = Outcome("pattern", Args(wave_config, f),
                                       IF s.raised THEN "raise" ELSE "ok", s.exc, "",
                                       <<>>, statistics, s.frame)
              /\ wave_parser' = IF s.raised /\ s.frame = NoData
                                THEN wave_parser ELSE parser
    /\ UNCHANGED <<data, builder_data>>
    /\ UNCHANGED <<wave_file, last, lastAdd, nAdds, thr>>

\* The three visualizations and the validator, each on a frame as given.
NextBuild ==
    \/ ValidateInputs
    \/ Build
    \/ Heatmap
    \/ PatternAnalysis

SpecBuild == InitBuild /\ [][NextBuild]_vars

\* ------------------------------------------------------------------ claims

KeySet(d) == {d[i].key : i \in 1..Len(d)}

PrefixOf(d, n) == DictGet(d, n)[2]

\* The wave number a wave name registers, when it has one.
HasNumber(name) == FirstDigitRun(name) # <<>>
NumberOf(name) == ParseInt(FirstDigitRun(name))

\* The most recent add_wave_definition call returned True and registered a
\* wave number.
AddedNumber == lastAdd.called /\ lastAdd.ret /\ HasNumber(lastAdd.wave_name)

\* reset_all_settings has not removed the persisted definitions since the
\* most recent add_wave_definition call, or ever.
NoResetSinceAdd == lastAdd.settings_reset # "since"

NeverReset == lastAdd.settings_reset = "never"

\* Wave numbers named by the canonical tokens of the model.
TokenNumbers == (1..MaxWave) \cup {10}

\* t is "w", digits, "_to_w", digits.
HasWaveShape(t) ==
    \E i \in 2..Len(t) :
        /\ t[1] = "w"
        /\ \A k \in 2..i : IsDigit(t[k])
        /\ Len(t) >= i + 6
        /\ SubSeq(t, i + 1, i + 5) = <<"_", "t", "o", "_", "w">>
        /\ \A k \in (i + 6)..Len(t) : IsDigit(t[k])

\* Neither supported shape, case and surrounding whitespace aside.
Malformed(t) ==
    LET n == LowerStr(Strip(t))
    IN  ~HasWaveShape(n) /\ n # AllWavesToken

\* The message names the w<N>_to_w<M> shape and all_waves.
ListsShapes(res) ==
    /\ \E i \in 1..Len(res.formats) :
          res.formats[i] \in {"w<number>_to_w<number>", "w{N}_to_w{M}"}
    /\ \E i \in 1..Len(res.formats) : res.formats[i] = "all_waves"

\* Same return value or same failure; the token text echoed in a message aside.
SameOutcome(a, b) ==
    /\ a.kind = b.kind /\ a.exc = b.exc /\ a.msg = b.msg
    /\ a.source = b.source /\ a.target = b.target
    /\ a.waves = b.waves /\ a.available = b.available /\ a.formats = b.formats

\* C1: after a successful add_wave_definition that registers wave number K
\* with prefix P in a registry holding wave N # K (the three defaults of a
\* missing file included), resolving wN_to_wK returns (prefix of N, P), the
\* settings not having been reset in between.
C1_AddThenResolve ==
    (last.op = "parse" /\ AddedNumber /\ NoResetSinceAdd) =>
        \A N \in KeySet(lastAdd.regBefore) :
            (/\ N # NumberOf(lastAdd.wave_name)
             /\ last.token = WaveToken(N, NumberOf(lastAdd.wave_name)))
            => last.res = Ok(PrefixOf(lastAdd.regBefore, N), lastAdd.column_prefix)

\* C2: all_waves resolves to the prefixes of the minimum- and the
\* maximum-numbered registered waves, and after an add of a number larger
\* than every registered one the target is the new wave's prefix.
C2_AllWavesMinMax ==
    (last.op = "parse" /\ last.token = AllWavesToken) =>
        LET reg == wave_parser.wave_numbers
        IN  /\ Len(reg) >= 2 =>
                 last.res = Ok(PrefixOf(reg, SetMin(KeySet(reg))),
                               PrefixOf(reg, SetMax(KeySet(reg))))
            /\ (/\ AddedNumber
                /\ NoResetSinceAdd
                /\ lastAdd.regBefore # <<>>
                /\ \A n \in KeySet(lastAdd.regBefore) :
                      NumberOf(lastAdd.wave_name) > n)
               => (last.res.kind = "ok" /\ last.res.target = lastAdd.column_prefix)

\* C3: with fewer than two registered waves, resolving all_waves fails with
\* WaveConfigurationError and returns no prefix pair.
C3_AllWavesNeedsTwo ==
    (/\ last.op = "parse"
     /\ last.token = AllWavesToken
     /\ Len(wave_parser.wave_numbers) < 2)
    => (last.res.kind = "raise" /\ last.res.exc = "WaveConfigurationError")

\* C4: for a registered N, a token wN_to_wN (its two numbers read as
\* integers are equal) fails with WaveConfigurationError, in the format
\* validator and in the resolver.
C4_SameWaveRejected ==
    LET match == WavePatternMatch(last.token)
    IN  (/\ last.op \in {"parse", "validate"}
         /\ match.matched
         /\ ParseInt(match.g1) = ParseInt(match.g2)
         /\ ParseInt(match.g1) \in KeySet(EffectiveRegistry))
        => (last.res.kind = "raise" /\ last.res.exc = "WaveConfigurationError")

\* C5: a token of neither supported shape makes resolution fail with
\* WaveConfigurationError whose message lists the supported shapes; no
\* prefix pair is returned.
C5_MalformedRejected ==
    (last.op = "parse" /\ Malformed(last.token))
    => (/\ last.res.kind = "raise"
        /\ last.res.exc = "WaveConfigurationError"
        /\ ListsShapes(last.res))

\* C6: a well-formed wN_to_wM with N or M unregistered fails with
\* WaveConfigurationError that names every missing wave number and lists
\* the registered ones (in any order); no prefix pair is returned.
C6_UnknownWave ==
    last.op = "parse" =>
        \A N, M \in TokenNumbers :
            LET reg == wave_parser.wave_numbers
                missing == {N, M} \ KeySet(reg)
            IN  (last.token = WaveToken(N, M) /\ N # M /\ missing # {})
                => /\ last.res.kind = "raise"
                   /\ last.res.exc = "WaveConfigurationError"
                   /\ \A n \in missing :
                         \E i \in 1..Len(last.res.waves) : last.res.waves[i] = n
                   /\ {last.res.available[i] : i \in 1..Len(last.res.available)}
                         = KeySet(reg)

\* C7: resolving a token has the same outcome as resolving its stripped,
\* lower-cased form.
C7_Normalised ==
    last.op = "parse" =>
        SameOutcome(last.res,
                    ParseWaveConfig(wave_parser, LowerStr(Strip(last.token))))

\* C8: add_wave_definition is atomic: True with the new row persisted and
\* visible to the next resolution, or False with the file and the registry
\* the next resolution sees exactly as before the call.
C8_AddAtomic ==
    last.op = "add" =>
        IF lastAdd.ret
        THEN /\ wave_file.state = "csv"
             /\ wave_file.rows # <<>>
             /\ wave_file.rows[Len(wave_file.rows)] =
                   Row(lastAdd.wave_name, lastAdd.column_prefix)
             /\ HasNumber(lastAdd.wave_name) =>
                   /\ DictHas(EffectiveRegistry, NumberOf(lastAdd.wave_name))
                   /\ PrefixOf(EffectiveRegistry, NumberOf(lastAdd.wave_name))
                         = lastAdd.column_prefix
        ELSE /\ wave_file = lastAdd.fileBefore
             /\ EffectiveRegistry = lastAdd.regBefore

\* C9: the write path is serialized: when two add_wave_definition calls for
\* distinct wave numbers have both returned True, both waves are registered
\* in the persisted definitions.
C9_NoLostUpdate ==
    (/\ \A t \in Threads : thr[t].pc = "done" /\ HasNumber(thr[t].wave_name)
     /\ NumberOf(thr[1].wave_name) # NumberOf(thr[2].wave_name))
    => \A t \in Threads :
          /\ DictHas(LoadWaveDefinitions(wave_file).wave_numbers,
                     NumberOf(thr[t].wave_name))
          /\ PrefixOf(LoadWaveDefinitions(wave_file).wave_numbers,
                      NumberOf(thr[t].wave_name)) = thr[t].column_prefix

\* C10: wave numbers are unique in the registry, and after a successful add
\* for an already registered number N with prefix P' the registry holds one
\* entry for N, with P', which every later resolution naming N returns (up
\* to the next add_wave_definition call or removal of the settings by
\* reset_all_settings).
C10_UniqueOverwrite ==
    LET reg == EffectiveRegistry
        K == NumberOf(lastAdd.wave_name)
    IN  /\ \A i, j \in 1..Len(reg) : reg[i].key = reg[j].key => i = j
        /\ (AddedNumber /\ NoResetSinceAdd /\ K \in KeySet(lastAdd.regBefore))
           => /\ Cardinality({i \in 1..Len(reg) : reg[i].key = K}) = 1
              /\ PrefixOf(reg, K) = lastAdd.column_prefix
              /\ (last.op = "parse" /\ last.res.kind = "ok") =>
                    \A M \in TokenNumbers :
                        /\ last.token = WaveToken(K, M) =>
                              last.res.source = lastAdd.column_prefix
                        /\ last.token = WaveToken(M, K) =>
                              last.res.target = lastAdd.column_prefix

C10_Witness ==
    /\ last.op = "parse"
    /\ AddedNumber
    /\ lastAdd.wave_name = WaveName(1)
    /\ 1 \in KeySet(lastAdd.regBefore)
    /\ PrefixOf(lastAdd.regBefore, 1) = Prefix(1)
    /\ last.token = WaveToken(1, 2)
    /\ last.res = Ok(<<"X", "1", "_">>, Prefix(2))


\* ------------------------------------------------ claims: the aggregator

\* The rows of the frame in which both resolved columns hold a value.
CompleteRows(df) ==
    {r \in 1..Len(df.rows) :
        /\ NotNull(Column(df, SourceColumn)[r])
        /\ NotNull(Column(df, TargetColumn)[r])}

Aggregated == outcome.op = "aggregate" /\ outcome.kind = "ok"

\* C11: the counts of the transition records add up to the number of rows
\* with both columns non-null, and that number is total_transitions.
C11_Conservation ==
    Aggregated =>
        /\ SumCounts(outcome.records) = Cardinality(CompleteRows(builder_data))
        /\ outcome.stats.total_transitions = Cardinality(CompleteRows(builder_data))

\* An aggregation of a frame in which one pair is held by two rows and a
\* third row has a missing cell.
C11_Witness ==
    /\ Aggregated
    /\ Len(builder_data.rows) = 3
    /\ outcome.stats.total_transitions = 2
    /\ Len(outcome.records) = 1

\* C12: an aggregation over a frame without a single complete row fails
\* with DataValidationError; it returns neither records nor statistics.
C12_ZeroRowsRejected ==
    (outcome.op = "aggregate" /\ CompleteRows(builder_data) = {}) =>
        outcome.kind = "raise" /\ outcome.exc = "DataValidationError"

\* Equality of two fractions.
SameRatio(p, q) == p.num * q.den = q.num * p.den

\* The sum of the records' percentages, as a fraction.
RECURSIVE SumPercentages(_)
SumPercentages(records) ==
    IF records = <<>> THEN [num |-> 0, den |-> 1]
    ELSE LET p == Head(records).percentage
             rest == SumPercentages(Tail(records))
         IN  IF p.den = rest.den
             THEN [num |-> p.num + rest.num, den |-> p.den]
             ELSE [num |-> p.num * rest.den + rest.num * p.den,
                   den |-> p.den * rest.den]

\* C13: in a non-empty aggregation every percentage is 100 * count over the
\* number of complete rows, and the percentages add up to 100.
C13_Percentages ==
    (Aggregated /\ outcome.records # <<>>) =>
        /\ \A i \in 1..Len(outcome.records) :
              SameRatio(outcome.records[i].percentage,
                        Percent(outcome.records[i].count,
                                Cardinality(CompleteRows(builder_data))))
        /\ SameRatio(SumPercentages(outcome.records), [num |-> 100, den |-> 1])

\* Two different transitions aggregated from a frame that also has a row
\* with a missing cell: the denominator is 2, not the 3 rows of the frame.
C13_Witness ==
    /\ Aggregated
    /\ Len(outcome.records) = 2
    /\ Len(builder_data.rows) = 3
    /\ Cardinality(CompleteRows(builder_data)) = 2

\* The complete rows of the frame whose two cells are equal.
StableRows(df) ==
    {r \in CompleteRows(df) : Column(df, SourceColumn)[r] = Column(df, TargetColumn)[r]}

\* C14: stability_rate lies in [0, 100]; it is 100 when every complete row
\* has equal source and target, and 0 when no complete row has.
C14_StabilityRate ==
    Aggregated =>
        LET rate == outcome.stats.stability_rate
        IN  /\ 0 <= rate.num /\ rate.num <= 100 * rate.den
            /\ StableRows(builder_data) = CompleteRows(builder_data) =>
                   SameRatio(rate, [num |-> 100, den |-> 1])
            /\ StableRows(builder_data) = {} => rate.num = 0

\* The same, for the frames with at least one complete row.
C14_NonEmpty == (CompleteRows(builder_data) # {}) => C14_StabilityRate

\* The smaller of two numbers.
Min(a, b) == IF a < b THEN a ELSE b

\* C15: the transition records are in non-increasing order of count, and
\* top_patterns is the first min(10, number of records) of them, in order.
C15_SortedTopPatterns ==
    Aggregated =>
        LET recs == outcome.records
            top == outcome.stats.top_patterns
        IN  /\ \A i \in 1..Len(recs) : \A j \in i..Len(recs) :
                  recs[i].count >= recs[j].count
            /\ Len(top) = Min(TopN, Len(recs))
            /\ \A i \in 1..Len(top) :
                  /\ top[i].source = recs[i].source
                  /\ top[i].target = recs[i].target
                  /\ top[i].count = recs[i].count
                  /\ top[i].percentage = recs[i].percentage

\* An aggregation with more than ten transition records, of unequal counts.
C15_Witness ==
    /\ Aggregated
    /\ Len(outcome.records) > TopN
    /\ Len(outcome.stats.top_patterns) = TopN
    /\ outcome.records[1].count > outcome.records[Len(outcome.records)].count

\* ---------------------------------------------------- claims: the filter

Filtered == outcome.op = "apply_filters" /\ outcome.kind = "ok"

\* A single filter on the filter column was applied.
OneFilter ==
    /\ outcome.op = "apply_filters"
    /\ Len(outcome.args) = 1
    /\ outcome.args[1].column = FilterColumn

\* The rows of the frame whose filter-column cell is one of the values, in
\* their order (the values taken as a set).
RowsAmong(df, valueSet) ==
    SelectSeq(df.rows, LAMBDA row : row[ColumnIndex(df, FilterColumn)] \in valueSet)

ValueSet(values) == {values[i] : i \in 1..Len(values)}

\* C17: the row filter returns exactly the rows of the input whose
\* filter-column value is a member of allowed_values, whatever the order of
\* allowed_values, and leaves the input frame as it was.
C17_FilterMembership ==
    /\ []((Filtered /\ OneFilter) =>
            /\ outcome.frame.columns = data.columns
            /\ outcome.frame.rows = RowsAmong(data, ValueSet(outcome.args[1].values)))
    /\ [][ApplyFiltersCall => data' = data]_vars

\* A filter on two values that kept some rows and dropped others, among
\* them a row with a missing cell.
C17_Witness ==
    /\ Filtered /\ OneFilter
    /\ Len(outcome.args[1].values) = 2
    /\ outcome.args[1].values[1] # outcome.args[1].values[2]
    /\ Len(data.rows) = 3
    /\ Len(outcome.frame.rows) = 2
    /\ \E r \in 1..3 : data.rows[r][1] = NaN

\* The cells of the filter column, and those of them that hold a value.
FilterCells(df) == {df.rows[r][ColumnIndex(df, FilterColumn)] : r \in 1..Len(df.rows)}

FilterValues(df) == {v \in FilterCells(df) : NotNull(v)}

\* C20 as stated: when allowed_values contains every distinct value of the
\* filter column, the filtered frame has as many rows as the input (which
\* has at least one), also when rows hold a missing value in that column.
C20_Original ==
    (OneFilter /\ FilterValues(data) \subseteq ValueSet(outcome.args[1].values)
               /\ data.rows # <<>>) =>
        /\ outcome.kind = "ok"
        /\ Len(outcome.frame.rows) = Len(data.rows)

\* C20: when allowed_values contains every cell of the filter column, NaN
\* included if a row holds it, and the frame has a row, the filter returns
\* every row of the input.
C20_IdentityWithNaN ==
    (OneFilter /\ FilterCells(data) \subseteq ValueSet(outcome.args[1].values)
               /\ data.rows # <<>>) =>
        /\ outcome.kind = "ok"
        /\ outcome.frame.rows = data.rows

\* A frame with a value and a missing cell in the filter column, filtered
\* on both.
C20_Witness ==
    /\ OneFilter /\ outcome.kind = "ok"
    /\ FilterCells(data) = {"A", NaN}
    /\ ValueSet(outcome.args[1].values) = {"A", NaN}
    /\ Len(outcome.frame.rows) = 3

\* ------------------------------------------- claims: the visualization paths

\* The call was made with a token that resolves, on a frame large enough
\* for validate_dataframe.
ResolvableCall ==
    /\ outcome.op \in {"validate", "build"}
    /\ ~ValidateDataframe(data, MinRows, MinCols).raised
    /\ ValidateWaveConfigFormat(outcome.args.wave_config).kind = "ok"
    /\ ParseWaveConfig(GetWaveParser(wave_parser, wave_file),
                       outcome.args.wave_config).kind = "ok"

\* The two columns the call's token and the variable resolve to.
ResolvedColumns ==
    LET parsed == ParseWaveConfig(GetWaveParser(wave_parser, wave_file),
                                  outcome.args.wave_config)
    IN  GenerateColumnNames(parsed.source, parsed.target, Variable)

ColumnAbsent == \E i \in 1..2 : ~HasColumn(data, ResolvedColumns[i])

BadCardinality ==
    /\ ~ColumnAbsent
    /\ \E i \in 1..2 : \/ NUnique(data, ResolvedColumns[i]) < MinUnique
                       \/ NUnique(data, ResolvedColumns[i]) > MaxUnique

\* The exception the call ended with (for build(), the one it wrapped).
TypedError ==
    IF outcome.kind # "raise" THEN "none"
    ELSE IF outcome.op = "build" THEN outcome.cause ELSE outcome.exc

\* C16: with a resolved column absent the aggregation path fails with
\* ColumnNotFoundError, with a resolved column of fewer than 2 or more than
\* 50 distinct values it fails with DataValidationError, and in neither
\* case does it go on to aggregate.
C16_PreconditionsTyped ==
    ResolvableCall =>
        /\ ColumnAbsent => TypedError = "ColumnNotFoundError"
        /\ BadCardinality => TypedError = "DataValidationError"

\* The frame the call filtered: the one passed in, or, for a build() on
\* the builder of an earlier build(), the one that builder held.
FilteredFrame == IF outcome.op = "rebuild" THEN builder_data ELSE data

\* A path that filters was asked for a value of the filter column that no
\* row of the frame holds.
FiltersToNothing ==
    /\ outcome.op \in {"build", "rebuild", "heatmap", "pattern"}
    /\ outcome.args.filter_column = FilterColumn
    /\ outcome.args.filter_value \notin FilterCells(FilteredFrame)

\* Nothing was aggregated and no frame was handed on.
NothingAggregated ==
    /\ outcome.kind = "raise"
    /\ outcome.records = <<>>
    /\ outcome.stats = NoStats
    /\ outcome.frame = NoData

\* The frame and the token pass every check that validate_visualization_inputs
\* makes before the filter's.
OtherChecksPass ==
    ~ValidateVisualizationInputs(data, Variable, outcome.args.wave_config, <<>>, "",
                                 GetWaveParser(wave_parser, wave_file)).raised

\* C18: filtering to a value that no row holds fails with FilteringError
\* in the builder, the heat map and the pattern analysis, and nothing is
\* aggregated or handed on.  For build(), which checks the frame and the
\* token before the filter, the frame and the token are otherwise valid,
\* and the error is the one that build() wrapped.
C18_EmptyFilterRejected ==
    (/\ FiltersToNothing
     /\ outcome.op \in {"build", "rebuild"} =>
           ~ValidateVisualizationInputs(FilteredFrame, Variable,
                                        outcome.args.wave_config, <<>>, "",
                                        GetWaveParser(wave_parser, wave_file)).raised)
    => /\ NothingAggregated
       /\ (IF outcome.op \in {"build", "rebuild"}
           THEN outcome.cause ELSE outcome.exc) = "FilteringError"

\* A path that filters was asked for a filter column the frame lacks.
FiltersOnAbsentColumn ==
    /\ outcome.op \in {"build", "heatmap", "pattern"}
    /\ outcome.args.filter_column # <<>>
    /\ outcome.args.filter_value # ""
    /\ ~HasColumn(data, outcome.args.filter_column)

\* C19: filtering on a column that the frame does not have fails with
\* FilteringError; the filter is not skipped and no unfiltered frame is
\* handed on.
C19_AbsentColumnRejected ==
    (FiltersOnAbsentColumn /\ OtherChecksPass) =>
        /\ NothingAggregated
        /\ TypedError = "FilteringError"

\* ------------------------------------------------- claims: the builder

\* A build() call of any kind has been made.
BuildCalled == outcome.op \in {"build", "build_default", "rebuild"}

\* What the steps of build() raise in the model (_configure_visualization
\* raises a VisualizationError of its own for a token that does not resolve).
StepExceptions ==
    {"DataLoadingError", "DataValidationError", "ColumnNotFoundError",
     "WaveConfigurationError", "FilteringError", "ValueError",
     "VisualizationError", "ZeroDivisionError", "RuntimeError", "KeyError"}

\* C21: when a step of build() fails (loading the default data, validation,
\* filtering, resolving the token, configuring, aggregating), build() raises
\* VisualizationError and nothing else; it returns records and statistics
\* only when no step failed, and then the statistics are those of the
\* records.
C21_BuildWraps ==
    BuildCalled =>
        /\ outcome.kind = "raise" =>
              /\ outcome.exc = "VisualizationError"
              /\ outcome.cause \in StepExceptions
              /\ outcome.records = <<>>
        /\ outcome.kind = "ok" =>
              /\ outcome.exc = "" /\ outcome.cause = ""
              /\ outcome.stats = CalculateStatistics(outcome.records)

\* build() failed in the default-data loading step.
C21_Witness ==
    /\ BuildCalled
    /\ outcome.kind = "raise"
    /\ outcome.cause = "DataLoadingError"

\* -------------------------------------------- claims: the cached registry

\* C22: as long as wave_definitions.csv has changed through
\* add_wave_definition only, the registry that a resolution or a listing has
\* read is the one that loading the file at that moment gives.
C22_CacheCoherent ==
    (last.op \in {"parse", "waves"} /\ NeverReset) =>
        wave_parser = LoadWaveDefinitions(wave_file)

\* C23: a resolution, whether it returns or raises, leaves
\* wave_definitions.csv and the contents of the registry as they were (a
\* cached registry is kept as it is, the first access builds it), and its
\* result is that of the resolver on the token and the registry it found.
C23_ResolveReadsOnly ==
    [][last'.op = "parse" =>
          /\ wave_file' = wave_file
          /\ EffectiveRegistry' = EffectiveRegistry
          /\ ~wave_parser.isNone => wave_parser' = wave_parser
          /\ last'.res = ParseWaveConfig(GetWaveParser(wave_parser, wave_file),
                                         last'.token)]_vars

\* A resolution failed, and another succeeded, on a registry that an
\* add_wave_definition had extended.
C23_Witness ==
    /\ last.op = "parse"
    /\ last.res.kind = "raise"
    /\ lastAdd.called /\ lastAdd.ret
    /\ ~wave_parser.isNone

\* C24: every wave number registered before an add_wave_definition that
\* returned True is registered after it, with the same prefix, unless it is
\* the number that the call registers.
C24_NeverShrinks ==
    (last.op = "add" /\ lastAdd.ret) =>
        \A n \in KeySet(lastAdd.regBefore) :
            (HasNumber(lastAdd.wave_name) /\ n = NumberOf(lastAdd.wave_name))
            \/ /\ DictHas(EffectiveRegistry, n)
               /\ PrefixOf(EffectiveRegistry, n) = PrefixOf(lastAdd.regBefore, n)

\* The tokens between the three default waves, with the prefixes they
\* resolve to.
DefaultResolutions ==
    {<<WaveToken(1, 2), Prefix(1), Prefix(2)>>,
     <<WaveToken(2, 3), Prefix(2), Prefix(3)>>,
     <<WaveToken(1, 3), Prefix(1), Prefix(3)>>,
     <<AllWavesToken, Prefix(1), Prefix(3)>>}

\* C25: with no wave_definitions.csv on disk, the registry that the first
\* access builds holds exactly the waves 1, 2 and 3 with the prefixes W1_,
\* W2_ and W3_, and w1_to_w2, w2_to_w3, w1_to_w3 and all_waves resolve
\* against it.
C25_DefaultsSeeded ==
    (wave_file = AbsentFile /\ last.op \in {"parse", "waves"}) =>
        /\ KeySet(wave_parser.wave_numbers) = {1, 2, 3}
        /\ \A n \in {1, 2, 3} : PrefixOf(wave_parser.wave_numbers, n) = Prefix(n)
        /\ \A r \in DefaultResolutions :
              last.token = r[1] =>
                  /\ last.res.kind = "ok"
                  /\ last.res.source = r[2]
                  /\ last.res.target = r[3]

\* all_waves was resolved with no file on disk.
C25_Witness ==
    /\ wave_file = AbsentFile
    /\ last.op = "parse"
    /\ last.token = AllWavesToken
    /\ last.res.kind = "ok"

\* C26: the wave numbers that get_available_waves returns, and those that a
\* resolution error lists as available, are in ascending order.
C26_AscendingWaves ==
    /\ last.op = "waves" => last.list = Sorted(last.list)
    /\ (last.op = "parse" /\ last.res.kind = "raise") =>
          last.res.available = Sorted(last.res.available)

\* -------------------------------------------- claims: ties in the sort

\* C27: records of equal count come in the order of the grouping (by source
\* label, then by target label).
C27_StableTies ==
    Aggregated =>
        \A i, j \in 1..Len(outcome.records) :
            (i < j /\ outcome.records[i].count = outcome.records[j].count) =>
                KeyLess(<<outcome.records[i].source, outcome.records[i].target>>,
                        <<outcome.records[j].source, outcome.records[j].target>>)

\* ------------------------------------ claims: the validator and the resolver

\* The wave numbers that the format validator reads in a token it accepts
\* are all registered (all_waves names none).
NumbersRegistered(wave_config, p) ==
    LET match == WavePatternMatch(LowerStr(Strip(wave_config)))
    IN  match.matched =>
            /\ DictHas(p.wave_numbers, ParseInt(match.g1))
            /\ DictHas(p.wave_numbers, ParseInt(match.g2))

\* C28: a token that validate_wave_config_format accepts, and whose wave
\* numbers are registered, is resolved by parse_wave_config without error;
\* a token that the validator rejects is rejected by the resolver.
C28_ValidatorResolverAgree ==
    last.op = "parse" =>
        LET v == ValidateWaveConfigFormat(last.token)
        IN  /\ (v.kind = "ok" /\ NumbersRegistered(last.token, wave_parser)) =>
                  last.res.kind = "ok"
            /\ v.kind = "raise" => last.res.kind = "raise"

\* ------------------------------------- claims: the builder's dataset

\* C29: a build() after apply_filter on a builder that has built before
\* gives what build() gives on the dataset handed to set_data with that
\* filter: the same failure, or the same records and statistics.
C29_BuildKeepsData ==
    outcome.op = "rebuild" =>
        \E cleaned \in BOOLEAN :
            \E r \in BuildRun(data, Variable, outcome.args.wave_config, outcome.args.filter_column, outcome.args.filter_value, GetWaveParser(wave_parser, wave_file), cleaned) :
                /\ r.raised = (outcome.kind = "raise")
                /\ r.cause = outcome.cause
                /\ r.records = outcome.records
                /\ r.stats = outcome.stats

\* --------------------------- claims: pattern analysis and the alluvial path

\* The pattern analysis returned its statistics.
PatternAnalysed == outcome.op = "pattern" /\ outcome.kind = "ok"

\* What build() returns for the arguments of the most recent call, where it
\* returns.
AlluvialRuns ==
    {r \in BuildRun(data, Variable, outcome.args.wave_config, outcome.args.filter_column, outcome.args.filter_value, GetWaveParser(wave_parser, wave_file), TRUE) : ~r.raised}

\* C30: the stable_count of the pattern analysis is the sum of the counts of
\* the alluvial records with source = target for the same dataset, token and
\* filter, and stable_count + changed_count = total_transitions.
C30_SameStableRows ==
    PatternAnalysed =>
        /\ \A r \in AlluvialRuns : outcome.stats.stable_count = StableCount(r.records)
        /\ outcome.stats.stable_count + outcome.stats.changed_count
              = outcome.stats.total_transitions

====
